---------------------------- MODULE Spec2Model ----------------------------
(***************************************************************************)
(* Model of railway/backend/main.py: the FastAPI handlers                  *)
(* calculate_emissions, get_full_routes and list_routes over the reference *)
(* tables ROUTES, COORDINATES and EMISSION_FACTORS.                        *)
(*                                                                         *)
(* Python floats are modelled as exact rationals extended with the IEEE    *)
(* values +inf, -inf and nan: a pair <<n, d>> with d > 0 and gcd(n, d) = 1 *)
(* is the number n/d, <<1, 0>> is +inf, <<-1, 0>> is -inf and <<0, 0>> is  *)
(* nan.  Rounding error of finite arithmetic is not modelled.              *)
(***************************************************************************)
EXTENDS Integers, Sequences, FiniteSets, TLC

---------------------------------------------------------------------------
(* Bounds of the model *)

\* Longest station sequence of a route in the datasets of Init.
MaxStations == 3

\* Number of request-handling threads in the concurrent specification.
NumWorkers == 2

---------------------------------------------------------------------------
(* Float arithmetic *)

Abs(x) == IF x < 0 THEN -x ELSE x

RECURSIVE GCD(_, _)
GCD(a, b) == IF b = 0 THEN a ELSE GCD(b, a % b)

\* The float n/d in lowest terms, d # 0.
Frac(n, d) ==
    LET g == GCD(Abs(n), Abs(d))
        s == IF d < 0 THEN -1 ELSE 1
    IN  <<s * (n \div g), s * (d \div g)>>

Int2F(n) == <<n, 1>>
Zero == <<0, 1>>
PosInf == <<1, 0>>
NegInf == <<-1, 0>>
NaN == <<0, 0>>

IsFinite(x) == x[2] > 0
IsNaN(x) == x = NaN
Sign(x) == IF x[1] > 0 THEN 1 ELSE IF x[1] < 0 THEN -1 ELSE 0

\* x * y on floats: nan propagates, inf * 0 = nan.
FMul(x, y) ==
    IF IsNaN(x) \/ IsNaN(y) THEN NaN
    ELSE IF ~IsFinite(x) \/ ~IsFinite(y)
         THEN <<Sign(x) * Sign(y), 0>>
    ELSE LET g1 == GCD(Abs(x[1]), y[2])
             g2 == GCD(Abs(y[1]), x[2])
         IN  Frac((x[1] \div g1) * (y[1] \div g2),
                  (x[2] \div g2) * (y[2] \div g1))

FNeg(x) == <<-x[1], x[2]>>

\* x + y on floats: nan propagates, inf + (-inf) = nan.
FAdd(x, y) ==
    IF IsNaN(x) \/ IsNaN(y) THEN NaN
    ELSE IF ~IsFinite(x) /\ ~IsFinite(y)
         THEN (IF x = y THEN x ELSE NaN)
    ELSE IF ~IsFinite(x) THEN x
    ELSE IF ~IsFinite(y) THEN y
    ELSE LET g == GCD(x[2], y[2])
             a == y[2] \div g
             b == x[2] \div g
         IN  Frac(x[1] * a + y[1] * b, x[2] * a)

FSub(x, y) == FAdd(x, FNeg(y))

\* x / k for an integer k > 0.
FDivInt(x, k) == FMul(x, <<1, k>>)

\* x <= y on floats that are not nan (every comparison with nan is False).
FLeq(x, y) ==
    IF IsNaN(x) \/ IsNaN(y) THEN FALSE
    ELSE IF x = y THEN TRUE
    ELSE IF x = NegInf \/ y = PosInf THEN TRUE
    ELSE IF x = PosInf \/ y = NegInf THEN FALSE
    ELSE Sign(FSub(x, y)) <= 0

FLess(x, y) == FLeq(x, y) /\ x # y

\* The integer nearest to n/d (d > 0), ties to the even one.
RoundHalfEven(n, d) ==
    LET q == n \div d
        r == n - q * d
    IN  IF 2 * r < d THEN q
        ELSE IF 2 * r > d THEN q + 1
        ELSE IF q % 2 = 0 THEN q ELSE q + 1

---------------------------------------------------------------------------
(* data/routes_with_coords.py, imported by main.py line 9: ROUTES,          *)
(* COORDINATES and haversine, as the system specification describes them.  *)
(* Coordinates lie on the equator or at a pole, at longitudes that are     *)
(* multiples of 90 degrees, where the haversine formula has exact values.  *)

EARTH_RADIUS_KM == 6371

\* pi as the rational 355/113.
Pi == <<355, 113>>

\* sin^2(deg / 2) for deg a multiple of 90 degrees.
SinSqHalf(deg) ==
    CASE Abs(deg) % 360 = 0   -> Zero
      [] Abs(deg) % 360 = 90  -> <<1, 2>>
      [] Abs(deg) % 360 = 180 -> <<1, 1>>
      [] Abs(deg) % 360 = 270 -> <<1, 2>>

\* cos(deg) for a latitude on the equator or at a pole.
CosDeg(deg) ==
    CASE deg = 0  -> <<1, 1>>
      [] deg = 90 -> Zero
      [] deg = -90 -> Zero

\* 2 * asin(sqrt(a)) in degrees, for the values a takes on this grid.
ArcHavDeg(a) ==
    CASE a = Zero     -> 0
      [] a = <<1, 2>> -> 90
      [] a = <<1, 1>> -> 180

\* Great-circle distance in km between (lat1, lon1) and (lat2, lon2), in
\* degrees, by the haversine formula with Earth radius 6371 km.
haversine(lat1, lon1, lat2, lon2) ==
    LET a == FAdd(SinSqHalf(lat2 - lat1),
                  FMul(FMul(CosDeg(lat1), CosDeg(lat2)),
                       SinSqHalf(lon2 - lon1)))
        c == FMul(Pi, <<ArcHavDeg(a), 180>>)
    IN  FMul(Int2F(EARTH_RADIUS_KM), c)

Stations == {"A", "B", "C"}

\* The coordinate (lat, lon) of each station that has one.
StationCoordinates ==
    [s \in Stations |->
        CASE s = "A" -> <<0, 0>>
          [] s = "B" -> <<0, 180>>
          [] s = "C" -> <<90, 0>>]

\* Station sequences of 1 .. MaxStations stations (a station may repeat).
StationSeqs == UNION {[1..n -> Stations] : n \in 1..MaxStations}

\* A dataset: one route, and coordinates for some of the stations.
RouteTables ==
    {[id \in {"1"} |-> [name |-> "Route 1", stations |-> s]] : s \in StationSeqs}

CoordinateTables ==
    {[s \in D |-> StationCoordinates[s]] : D \in SUBSET Stations}

---------------------------------------------------------------------------
(* main.py *)

VARIABLES
    ROUTES,            \* route id -> [name, stations]
    COORDINATES,       \* station -> <<lat, lon>>
    EMISSION_FACTORS,  \* mode -> container -> kg CO2 per t km
    pc,                \* per thread: "idle", "loop" (in calculate_emissions), "done"
    req,               \* per thread: the EmissionRequest being handled
    i,                 \* per thread: loop index of calculate_emissions (0-based)
    distance_km,       \* per thread: local of calculate_emissions
    coords,            \* per thread: local of calculate_emissions
    rail_emission,     \* per thread: local of calculate_emissions
    ship_emission,     \* per thread: local of calculate_emissions
    saved,             \* per thread: local of calculate_emissions
    outcome            \* per thread: what the last handler returned or raised

tables == <<ROUTES, COORDINATES, EMISSION_FACTORS>>
locals == <<i, distance_km, coords, rail_emission, ship_emission, saved>>
vars == <<ROUTES, COORDINATES, EMISSION_FACTORS, pc, req, i, distance_km,
          coords, rail_emission, ship_emission, saved, outcome>>

Workers == DOMAIN pc

\* main.py lines 30-40.
EmissionFactorTable ==
    [mode \in {"rail", "ship_plus"} |->
        [c \in {"dfe", "sfe"} |->
            CASE mode = "rail" /\ c = "dfe" -> Frac(18, 1000)
              [] mode = "rail" /\ c = "sfe" -> Frac(15, 1000)
              [] mode = "ship_plus" /\ c = "dfe" -> Frac(45, 1000)
              [] mode = "ship_plus" /\ c = "sfe" -> Frac(38, 1000)]]

\* The weight for which a quarter-circumference route (6371 * pi / 2 km)
\* in a "dfe" container saves exactly 11 kg: 11 / (0.027 * 6371 * pi / 2).
HalfTreeWeight == Frac(497200, 12213207)

\* EmissionRequest, main.py lines 45-48: the requests the handlers are given.
\* weight_tons is a float: inf, -inf and nan are values of the field.
Weights == {Zero, Int2F(-5), Int2F(10), HalfTreeWeight, PosInf, NegInf, NaN}
Requests ==
    [route_id : {"1", "9"}, weight_tons : Weights, container : {"dfe", "sfe", "xyz"}]

NoRequest == [route_id |-> "", weight_tons |-> Zero, container |-> ""]
NoOutcome ==
    [handler |-> "", kind |-> "none", status |-> 0, detail |-> <<>>, body |-> <<>>]

\* raise HTTPException(status, detail) in calculate_emissions.
HTTPException(status, detail) ==
    [handler |-> "calculate_emissions", kind |-> "HTTPException",
     status |-> status, detail |-> detail, body |-> <<>>]

\* An exception no handler catches: the server answers 500.
Unhandled(handler, exception) ==
    [handler |-> handler, kind |-> exception, status |-> 500,
     detail |-> <<>>, body |-> <<>>]

\* A handler's return value, sent with status 200.
Response(handler, value) ==
    [handler |-> handler, kind |-> "response", status |-> 200,
     detail |-> <<>>, body |-> <<value>>]

\* Validate with the weight check written "< 0".
ValidateNegativeOnly(r) ==
    IF r.route_id \notin DOMAIN ROUTES THEN <<"invalid route id">>
    ELSE IF r.container \notin {"dfe", "sfe"} THEN <<"container must be dfe or sfe">>
    ELSE IF FLess(r.weight_tons, Zero) THEN <<"weight must be greater than 0">>
    ELSE <<>>

\* Validate without the container check.
ValidateNoContainerCheck(r) ==
    IF r.route_id \notin DOMAIN ROUTES THEN <<"invalid route id">>
    ELSE IF FLeq(r.weight_tons, Zero) THEN <<"weight must be greater than 0">>
    ELSE <<>>

\* Lines 78-83: the detail of the first check that fails, <<>> if none does.
Validate(r) ==
    IF r.route_id \notin DOMAIN ROUTES THEN <<"invalid route id">>
    ELSE IF r.container \notin {"dfe", "sfe"} THEN <<"container must be dfe or sfe">>
    ELSE IF FLeq(r.weight_tons, Zero) THEN <<"weight must be greater than 0">>
    ELSE <<>>

\* Lines 79, 81, 83: the status of the error for a request that fails a check.
ValidationStatus == 400

\* The missing-coordinate error raised with the status of a validation error.
MissingCoordinateStatusAsValidation == ValidationStatus

\* Line 94: the status of the error for a station without coordinates.
MissingCoordinateStatus == 500

\* distance_km kept from the thread's previous call instead of being reset.
InitialDistanceKept(p) == distance_km[p]

\* Line 89: distance_km = 0.0 at the start of each call.
InitialDistance(p) == Zero

\* The first coordinate of the route instead of the previous one.
PreviousCoordFirst(cs, k) == cs[1]

\* Line 98: coords[i - 1], the coordinate appended by the previous iteration
\* (cs is 1-based here, k is the 0-based loop index).
PreviousCoord(cs, k) == cs[k]

\* The rail factor read from the "ship_plus" row.
rail_factor_from_ship_row(r) == EMISSION_FACTORS["ship_plus"][r.container]

\* The ship factor read for "dfe" whatever the container.
ship_factor_dfe_only(r) == EMISSION_FACTORS["ship_plus"]["dfe"]

\* Lines 102-103.
rail_factor(r) == EMISSION_FACTORS["rail"][r.container]
ship_factor(r) == EMISSION_FACTORS["ship_plus"][r.container]

\* Line 110: kg of CO2 one tree absorbs in a year.
TREE_KG == 22

\* Rounding to the nearest integer with ties rounded up.
PyRoundHalfUp(x) == (2 * x[1] + x[2]) \div (2 * x[2])

\* Python's round(x) of a finite float: to the nearest integer, ties to even.
PyRound(x) == RoundHalfEven(x[1], x[2])

\* Python's round(x, 1): x to one decimal place; inf and nan are returned as is.
Round1(x) == IF IsFinite(x) THEN Frac(RoundHalfEven(10 * x[1], x[2]), 10) ELSE x

\* Line 110: max(0, round(saved / 22)), for saved / 22 finite.
Trees(s) ==
    LET n == PyRound(FDivInt(s, TREE_KG)) IN IF n > 0 THEN n ELSE 0

Init ==
    /\ ROUTES \in RouteTables
    /\ COORDINATES \in CoordinateTables
    /\ EMISSION_FACTORS = EmissionFactorTable
    /\ pc = [p \in 1..1 |-> "idle"]
    /\ req = [p \in 1..1 |-> NoRequest]
    /\ i = [p \in 1..1 |-> 0]
    /\ distance_km = [p \in 1..1 |-> Zero]
    /\ coords = [p \in 1..1 |-> <<>>]
    /\ rail_emission = [p \in 1..1 |-> Zero]
    /\ ship_emission = [p \in 1..1 |-> Zero]
    /\ saved = [p \in 1..1 |-> Zero]
    /\ outcome = [p \in 1..1 |-> NoOutcome]

\* Lines 53-59.
get_full_routes(p) ==
    /\ pc[p] \in {"idle", "done"}
    /\ LET coords_serializable == [k \in DOMAIN COORDINATES |-> COORDINATES[k]]
       IN  outcome' = [outcome EXCEPT ![p] =
               Response("get_full_routes",
                        [routes |-> ROUTES, coordinates |-> coords_serializable])]
    /\ pc' = [pc EXCEPT ![p] = "done"]
    /\ req' = [req EXCEPT ![p] = NoRequest]
    /\ UNCHANGED <<tables, locals>>

\* Lines 64-71.
list_routes(p) ==
    /\ pc[p] \in {"idle", "done"}
    /\ outcome' = [outcome EXCEPT ![p] =
           Response("list_routes",
                    [routes |-> {[id |-> k, name |-> ROUTES[k].name] : k \in DOMAIN ROUTES}])]
    /\ pc' = [pc EXCEPT ![p] = "done"]
    /\ req' = [req EXCEPT ![p] = NoRequest]
    /\ UNCHANGED <<tables, locals>>

\* Lines 77-90: the call, the three checks, and the locals before the loop.
calculate_emissions(p, r) ==
    /\ pc[p] \in {"idle", "done"}
    /\ req' = [req EXCEPT ![p] = r]
    /\ IF Validate(r) # <<>>
       THEN /\ outcome' = [outcome EXCEPT ![p] =
                   HTTPException(ValidationStatus, Validate(r))]
            /\ pc' = [pc EXCEPT ![p] = "done"]
            /\ UNCHANGED locals
       ELSE /\ outcome' = [outcome EXCEPT ![p] = NoOutcome]
            /\ pc' = [pc EXCEPT ![p] = "loop"]
            /\ i' = [i EXCEPT ![p] = 0]
            /\ distance_km' = [distance_km EXCEPT ![p] = InitialDistance(p)]
            /\ coords' = [coords EXCEPT ![p] = <<>>]
            /\ UNCHANGED <<rail_emission, ship_emission, saved>>
    /\ UNCHANGED tables

\* Lines 95-99: the body of the loop for a station that has coordinates, at
\* 0-based index k with distance d and coordinate list cs so far.
LoopBody(station, k, d, cs) ==
    LET lat == COORDINATES[station][1]
        lon == COORDINATES[station][2]
        cs2 == Append(cs, <<lat, lon>>)
    IN  [coords |-> cs2,
         distance_km |->
             IF k > 0
             THEN FAdd(d, haversine(PreviousCoord(cs2, k)[1],
                                    PreviousCoord(cs2, k)[2], lat, lon))
             ELSE d]

\* Lines 92-99: one iteration of the loop over the route's stations.
loop_iteration(p) ==
    LET stations == ROUTES[req[p].route_id].stations
        station == stations[i[p] + 1]
    IN  /\ pc[p] = "loop"
        /\ i[p] < Len(stations)
        /\ IF station \notin DOMAIN COORDINATES
           THEN /\ outcome' = [outcome EXCEPT ![p] =
                       HTTPException(MissingCoordinateStatus,
                                     <<"no coordinates for station", station>>)]
                /\ pc' = [pc EXCEPT ![p] = "done"]
                /\ UNCHANGED <<i, distance_km, coords>>
           ELSE LET after == LoopBody(station, i[p], distance_km[p], coords[p])
                IN  /\ coords' = [coords EXCEPT ![p] = after.coords]
                    /\ distance_km' = [distance_km EXCEPT ![p] = after.distance_km]
                    /\ i' = [i EXCEPT ![p] = @ + 1]
                    /\ UNCHANGED <<pc, outcome>>
        /\ UNCHANGED <<tables, req, rail_emission, ship_emission, saved>>

\* Lines 89-99 run to the end over a station sequence whose stations all have
\* coordinates: the final distance_km.
RECURSIVE LoopFrom(_, _, _, _)
LoopFrom(stations, k, d, cs) ==
    IF k = Len(stations) THEN d
    ELSE LET after == LoopBody(stations[k + 1], k, d, cs)
         IN  LoopFrom(stations, k + 1, after.distance_km, after.coords)

TotalDistance(stations) == LoopFrom(stations, 0, Zero, <<>>)

\* Lines 101-122: the emissions, the trees and the returned result.
emissions(p) ==
    LET r == req[p]
        route == ROUTES[r.route_id]
        stations == route.stations
    IN  /\ pc[p] = "loop"
        /\ i[p] = Len(stations)
        /\ pc' = [pc EXCEPT ![p] = "done"]
        /\ IF \/ r.container \notin DOMAIN EMISSION_FACTORS["rail"]
              \/ r.container \notin DOMAIN EMISSION_FACTORS["ship_plus"]
           THEN /\ outcome' = [outcome EXCEPT ![p] =
                       Unhandled("calculate_emissions", "KeyError")]
                /\ UNCHANGED <<rail_emission, ship_emission, saved>>
           ELSE LET rail == FMul(FMul(r.weight_tons, distance_km[p]), rail_factor(r))
                    ship == FMul(FMul(r.weight_tons, distance_km[p]), ship_factor(r))
                    sv == FSub(ship, rail)
                IN  /\ rail_emission' = [rail_emission EXCEPT ![p] = rail]
                    /\ ship_emission' = [ship_emission EXCEPT ![p] = ship]
                    /\ saved' = [saved EXCEPT ![p] = sv]
                    /\ outcome' = [outcome EXCEPT ![p] =
                           IF IsNaN(FDivInt(sv, TREE_KG))
                           THEN Unhandled("calculate_emissions", "ValueError")
                           ELSE IF ~IsFinite(FDivInt(sv, TREE_KG))
                           THEN Unhandled("calculate_emissions", "OverflowError")
                           ELSE Response("calculate_emissions",
                                    [route_name |-> route.name,
                                     from |-> stations[1],
                                     to |-> stations[Len(stations)],
                                     distance_km |-> Round1(distance_km[p]),
                                     rail_kg |-> Round1(rail),
                                     ship_kg |-> Round1(ship),
                                     saved_kg |-> Round1(sv),
                                     trees |-> Trees(sv),
                                     coords |-> coords[p]])]
        /\ UNCHANGED <<tables, req, i, distance_km, coords>>

Next ==
    \/ \E p \in Workers : get_full_routes(p)
    \/ \E p \in Workers : list_routes(p)
    \/ \E p \in Workers, r \in Requests : calculate_emissions(p, r)
    \/ \E p \in Workers : loop_iteration(p)
    \/ \E p \in Workers : emissions(p)

Spec == Init /\ [][Next]_vars

\* NumWorkers threads of the server's pool handling requests concurrently,
\* over a three-station route whose last station may lack coordinates.
InitConc ==
    /\ ROUTES = [id \in {"1"} |-> [name |-> "Route 1", stations |-> <<"A", "B", "C">>]]
    /\ COORDINATES \in {[s \in D |-> StationCoordinates[s]] :
                            D \in {Stations, Stations \ {"C"}}}
    /\ EMISSION_FACTORS = EmissionFactorTable
    /\ pc = [p \in 1..NumWorkers |-> "idle"]
    /\ req = [p \in 1..NumWorkers |-> NoRequest]
    /\ i = [p \in 1..NumWorkers |-> 0]
    /\ distance_km = [p \in 1..NumWorkers |-> Zero]
    /\ coords = [p \in 1..NumWorkers |-> <<>>]
    /\ rail_emission = [p \in 1..NumWorkers |-> Zero]
    /\ ship_emission = [p \in 1..NumWorkers |-> Zero]
    /\ saved = [p \in 1..NumWorkers |-> Zero]
    /\ outcome = [p \in 1..NumWorkers |-> NoOutcome]

\* The requests sent while the threads run concurrently.
ConcRequests ==
    {[route_id |-> "1", weight_tons |-> Int2F(10), container |-> "dfe"],
     [route_id |-> "1", weight_tons |-> HalfTreeWeight, container |-> "sfe"],
     [route_id |-> "1", weight_tons |-> Zero, container |-> "dfe"],
     [route_id |-> "9", weight_tons |-> Int2F(10), container |-> "dfe"]}

NextConc ==
    \/ \E p \in Workers : get_full_routes(p)
    \/ \E p \in Workers : list_routes(p)
    \/ \E p \in Workers, r \in ConcRequests : calculate_emissions(p, r)
    \/ \E p \in Workers : loop_iteration(p)
    \/ \E p \in Workers : emissions(p)

SpecConc == InitConc /\ [][NextConc]_vars

---------------------------------------------------------------------------
(* Properties *)

Reverse(s) == [k \in 1..Len(s) |-> s[Len(s) + 1 - k]]

\* Thread p is inside calculate_emissions, or has finished it.
CalcDone(p) == pc[p] = "done" /\ outcome[p].handler = "calculate_emissions"
InCalc(p) == pc[p] = "loop" \/ CalcDone(p)

\* calculate_emissions returned a result to thread p.
Returned(p) == CalcDone(p) /\ outcome[p].kind = "response"

IsValidationError(o) == o.kind = "HTTPException" /\ o.status = 400
IsIntegrityError(o) == o.kind = "HTTPException" /\ o.status = 500

PreconditionViolated(r) ==
    \/ r.route_id \notin DOMAIN ROUTES
    \/ r.container \notin {"dfe", "sfe"}
    \/ FLeq(r.weight_tons, Zero)

RouteStations(p) == ROUTES[req[p].route_id].stations
AllHaveCoordinates(st) == \A k \in 1..Len(st) : st[k] \in DOMAIN COORDINATES

\* The loop of thread p's call ran over every station of the route.
LoopCompleted(p) ==
    /\ CalcDone(p)
    /\ ~PreconditionViolated(req[p])
    /\ AllHaveCoordinates(RouteStations(p))

\* The sum of haversine over the adjacent pairs st[k], st[k + 1].
RECURSIVE SumAdjacent(_, _)
SumAdjacent(st, k) ==
    IF k >= Len(st) THEN Zero
    ELSE FAdd(haversine(COORDINATES[st[k]][1], COORDINATES[st[k]][2],
                        COORDINATES[st[k + 1]][1], COORDINATES[st[k + 1]][2]),
              SumAdjacent(st, k + 1))

\* C1: a request that violates a precondition (unknown route id, container
\* other than "dfe" and "sfe", weight <= 0) never enters the loop and ends in
\* an HTTP 400 error, whatever the other fields and the route's coordinates.
C1_ViolatedPreconditionIs400 ==
    \A p \in Workers :
        InCalc(p) /\ PreconditionViolated(req[p])
            => pc[p] = "done" /\ IsValidationError(outcome[p])

\* A weight of -5 on a known route that references a station without
\* coordinates was answered 400.
C1_Witness ==
    \E p \in Workers :
        /\ CalcDone(p)
        /\ req[p].route_id \in DOMAIN ROUTES
        /\ req[p].container = "dfe"
        /\ req[p].weight_tons = Int2F(-5)
        /\ ~AllHaveCoordinates(RouteStations(p))
        /\ IsValidationError(outcome[p])

\* C2: a request that passes the three checks ends in an HTTP 500 error (not
\* a 400) when some station of the route has no coordinate, and in no HTTP
\* 500 data-integrity error when every station has one.
C2_MissingCoordinateIs500 ==
    \A p \in Workers :
        CalcDone(p) /\ ~PreconditionViolated(req[p])
            => IF AllHaveCoordinates(RouteStations(p))
               THEN ~IsIntegrityError(outcome[p])
               ELSE IsIntegrityError(outcome[p]) /\ ~IsValidationError(outcome[p])

\* A three-station route whose last station alone lacks coordinates was
\* answered 500.
C2_Witness ==
    \E p \in Workers :
        /\ CalcDone(p)
        /\ ~PreconditionViolated(req[p])
        /\ Len(RouteStations(p)) = 3
        /\ RouteStations(p)[1] \in DOMAIN COORDINATES
        /\ RouteStations(p)[2] \in DOMAIN COORDINATES
        /\ RouteStations(p)[3] \notin DOMAIN COORDINATES
        /\ IsIntegrityError(outcome[p])

\* C3: in every returned result the unrounded emissions are weight * distance
\* * factor with the rail and the ship_plus factor of the requested container,
\* and saved is their signed difference.
C3_EmissionFormulas ==
    \A p \in Workers :
        Returned(p) =>
            LET wd == FMul(req[p].weight_tons, distance_km[p])
            IN  /\ rail_emission[p] =
                       FMul(wd, EMISSION_FACTORS["rail"][req[p].container])
                /\ ship_emission[p] =
                       FMul(wd, EMISSION_FACTORS["ship_plus"][req[p].container])
                /\ saved[p] = FSub(ship_emission[p], rail_emission[p])
                /\ FAdd(saved[p], rail_emission[p]) = ship_emission[p]

\* A result for an "sfe" container over a route of positive length.
C3_Witness ==
    \E p \in Workers :
        Returned(p) /\ req[p].container = "sfe" /\ saved[p] # Zero

\* C4: in every returned result trees is an integer >= 0, it is 0 whenever
\* saved <= 11, and otherwise it is an integer nearest to saved / 22.
C4_TreesNonNegative ==
    \A p \in Workers :
        Returned(p) =>
            LET t == outcome[p].body[1].trees
                off == FSub(saved[p], Int2F(22 * t))
            IN  /\ t \in Nat
                /\ FLeq(saved[p], Int2F(11)) => t = 0
                /\ ~FLeq(saved[p], Int2F(11))
                       => FLeq(Int2F(-11), off) /\ FLeq(off, Int2F(11))

\* A result with saved exactly 11 kg, half a tree, and trees = 0.
C4_Witness ==
    \E p \in Workers :
        Returned(p) /\ saved[p] = Int2F(11) /\ outcome[p].body[1].trees = 0

\* C5: when every station of the route has coordinates the accumulated
\* distance is the sum of haversine over the adjacent pairs in route order,
\* and for a one-station route it is 0 and the call does not fail.
C5_DistanceIsAdjacentSumAndSingleStationSucceeds ==
    \A p \in Workers :
        LoopCompleted(p) =>
            /\ distance_km[p] = SumAdjacent(RouteStations(p), 1)
            /\ Len(RouteStations(p)) = 1
                   => distance_km[p] = Zero /\ outcome[p].kind = "response"

\* The distance part of C5 alone.
C5_DistanceIsAdjacentSum ==
    \A p \in Workers :
        LoopCompleted(p) =>
            /\ distance_km[p] = SumAdjacent(RouteStations(p), 1)
            /\ Len(RouteStations(p)) = 1 => distance_km[p] = Zero

\* Two finished calls of calculate_emissions with the same request have the
\* same outcome.
SameRequestSameOutcome ==
    \A p, q \in Workers :
        CalcDone(p) /\ CalcDone(q) /\ req[p] = req[q] => outcome[p] = outcome[q]

\* C6: no step changes ROUTES, COORDINATES or EMISSION_FACTORS, and at any
\* time two finished calls of calculate_emissions with the same request have
\* the same outcome, whatever the threads did before and in between.
C6_TablesFixedOutcomesDeterministic ==
    /\ [][/\ ROUTES' = ROUTES
          /\ COORDINATES' = COORDINATES
          /\ EMISSION_FACTORS' = EMISSION_FACTORS]_vars
    /\ []SameRequestSameOutcome

\* Two threads hold a result for the same request.
C6_Witness ==
    \E p, q \in Workers :
        p # q /\ Returned(p) /\ Returned(q) /\ req[p] = req[q]

\* C7: a finished call ended in a complete result, an HTTP 400 error or an
\* HTTP 500 data-integrity error; an error carries no part of a result, and
\* a result lists one coordinate per station in route order, with "from" the
\* first station and "to" the last.
C7_ThreeOutcomesNoPartialResult ==
    \A p \in Workers :
        CalcDone(p) =>
            LET o == outcome[p]
                st == RouteStations(p)
            IN  \/ /\ IsValidationError(o) \/ IsIntegrityError(o)
                   /\ o.body = <<>>
                \/ /\ o.kind = "response"
                   /\ Len(o.body[1].coords) = Len(st)
                   /\ \A k \in 1..Len(st) : o.body[1].coords[k] = COORDINATES[st[k]]
                   /\ o.body[1].from = st[1]
                   /\ o.body[1].to = st[Len(st)]

C9_FactorLookupDefined ==
    /\ \A mode \in {"rail", "ship_plus"} :
           /\ mode \in DOMAIN EMISSION_FACTORS
           /\ {"dfe", "sfe"} \subseteq DOMAIN EMISSION_FACTORS[mode]
    /\ \A p \in Workers :
           /\ pc[p] = "loop" => req[p].container \in {"dfe", "sfe"}
           /\ outcome[p].kind # "KeyError"

\* A call with an "sfe" container went through both lookups and returned.
C9_Witness ==
    \E p \in Workers : Returned(p) /\ req[p].container = "sfe"

=============================================================================
